---------------------------- MODULE Spec2Model ----------------------------
(***************************************************************************)
(* Model of src/navigation/recast.ts: decomposition of a rectangular       *)
(* walkable area with convex obstacles into convex polygons.               *)
(*                                                                         *)
(* Points are records [x, y] with integer coordinates; a polygon is a      *)
(* sequence of points.  Indices stored in the state (hole starts, triangle *)
(* indices, adjacency lists, the visited set, the loop counter) are the    *)
(* 0-based indices of the code; TLA+ sequences are 1-based, so element k   *)
(* of a code array a is a[k + 1] here.                                     *)
(***************************************************************************)
EXTENDS Integers, Sequences, FiniteSets

VARIABLES pc, boundingBox, obstacles, error, vertices, holes, triangles,
          adjacencyMap, visited, result, outerI, nbrPos, mergedPoly,
          consumedBy, attempted, rejectedBy, fnIn, fnOut

vars == <<pc, boundingBox, obstacles, error, vertices, holes, triangles,
          adjacencyMap, visited, result, outerI, nbrPos, mergedPoly,
          consumedBy, attempted, rejectedBy, fnIn, fnOut>>

pipelineVarsButPc ==
    <<boundingBox, obstacles, error, vertices, holes, triangles,
      adjacencyMap, visited, result, outerI, nbrPos, mergedPoly,
      consumedBy, attempted, rejectedBy>>

(***************************************************************************)
(* Bounds of the model.                                                    *)
(***************************************************************************)
\* most obstacles in one call
MaxObst == 2
\* most triangles the triangulation engine returns in one call
MaxTri == 3
\* longest polygon given to isConvex on its own
MaxConvexLen == 4
\* most triangles in a triangle list given to the merge on its own
MaxAnyTri == 2
\* longest polygon given to mergePolygons on its own
MaxPolyLen == 4

(***************************************************************************)
(* Geometry primitives.                                                    *)
(***************************************************************************)
\* 1e-6 is 1 / TolInv
TolInv == 1000000

P(px, py) == [x |-> px, y |-> py]

Abs(n) == IF n < 0 THEN -n ELSE n

\* Math.sign
Sign(n) == IF n > 0 THEN 1 ELSE IF n < 0 THEN -1 ELSE 0

Range(s) == {s[k] : k \in 1..Len(s)}

pointsEqual(a, b) ==
    /\ Abs(a.x - b.x) * TolInv < 1
    /\ Abs(a.y - b.y) * TolInv < 1

\* poly.map((p, i) => [p, poly[(i + 1) % poly.length]])
getEdges(poly) ==
    [k \in 1..Len(poly) |-> <<poly[k], poly[(k % Len(poly)) + 1]>>]

\* cross product of the edge vectors a->b and b->c
Cross(a, b, c) == (b.x - a.x) * (c.y - b.y) - (b.y - a.y) * (c.x - b.x)

\* isConvexLoop without the test that skips a zero cross product
RECURSIVE isConvexLoopNoZeroSkip(_, _, _)
isConvexLoopNoZeroSkip(poly, i, sign) ==
    LET n == Len(poly) IN
    IF i >= n THEN TRUE
    ELSE LET a == poly[i + 1]
             b == poly[((i + 1) % n) + 1]
             c == poly[((i + 2) % n) + 1]
             cross == Cross(a, b, c)
         IN  IF sign = 0 THEN isConvexLoopNoZeroSkip(poly, i + 1, Sign(cross))
             ELSE IF Sign(cross) # sign THEN FALSE
             ELSE isConvexLoopNoZeroSkip(poly, i + 1, sign)

\* the loop of isConvex from 0-based index i on, with the tracked sign
RECURSIVE isConvexLoop(_, _, _)
isConvexLoop(poly, i, sign) ==
    LET n == Len(poly) IN
    IF i >= n THEN TRUE
    ELSE LET a == poly[i + 1]
             b == poly[((i + 1) % n) + 1]
             c == poly[((i + 2) % n) + 1]
             cross == Cross(a, b, c)
         IN  IF cross # 0
             THEN IF sign = 0 THEN isConvexLoop(poly, i + 1, Sign(cross))
                  ELSE IF Sign(cross) # sign THEN FALSE
                  ELSE isConvexLoop(poly, i + 1, sign)
             ELSE isConvexLoop(poly, i + 1, sign)

isConvex(poly) ==
    IF Len(poly) < 3 THEN FALSE ELSE isConvexLoop(poly, 0, 0)

EdgesMatch(e1, e2) ==
    \/ pointsEqual(e1[1], e2[1]) /\ pointsEqual(e1[2], e2[2])
    \/ pointsEqual(e1[1], e2[2]) /\ pointsEqual(e1[2], e2[1])

\* shareEdge looking at the first edge of tri1 only
shareEdgeFirstOnly(tri1, tri2) ==
    LET edges1 == getEdges(tri1)
        edges2 == getEdges(tri2)
    IN  \E l \in 1..Len(edges2) : EdgesMatch(edges1[1], edges2[l])

shareEdge(tri1, tri2) ==
    LET edges1 == getEdges(tri1)
        edges2 == getEdges(tri2)
    IN  \E k \in 1..Len(edges1) : \E l \in 1..Len(edges2) :
            EdgesMatch(edges1[k], edges2[l])

\* An optional value is a sequence of length 0 (null) or 1 (the value).
Null == << >>
Some(v) == <<v>>

\* the first edge of poly1, in poly1's order, that matches an edge of poly2
findSharedEdge(poly1, poly2) ==
    LET edges1 == getEdges(poly1)
        edges2 == getEdges(poly2)
        hits == {k \in 1..Len(edges1) :
                    \E l \in 1..Len(edges2) : EdgesMatch(edges1[k], edges2[l])}
    IN  IF hits = {} THEN Null
        ELSE Some(edges1[CHOOSE k \in hits : \A h \in hits : k <= h])

\* poly2.findIndex(p => pointsEqual(p, edgeStart)): 0-based, -1 when absent
findIndex(poly2, edgeStart) ==
    LET hits == {k \in 1..Len(poly2) : pointsEqual(poly2[k], edgeStart)}
    IN  IF hits = {} THEN -1
        ELSE (CHOOSE k \in hits : \A h \in hits : k <= h) - 1

\* spliceFrom with the loop stopping one round early
spliceFromShort(poly2, index) ==
    LET n == Len(poly2)
        cnt == IF n >= 3 THEN n - 3 ELSE 0
    IN  [t \in 1..cnt |-> poly2[((index + t - 1) % n) + 1]]

\* the inner loop of mergePolygons: poly2.length - 2 vertices from index on
spliceFrom(poly2, index) ==
    LET n == Len(poly2)
        cnt == IF n >= 2 THEN n - 2 ELSE 0
    IN  [t \in 1..cnt |-> poly2[((index + t - 1) % n) + 1]]

\* the walk over poly1 from 1-based position k; index is carried across
\* every vertex of poly1 that equals edgeStart
RECURSIVE mergeWalk(_, _, _, _, _)
mergeWalk(poly1, poly2, k, index, edgeStart) ==
    IF k > Len(poly1) THEN << >>
    ELSE IF ~pointsEqual(poly1[k], edgeStart)
         THEN <<poly1[k]>> \o mergeWalk(poly1, poly2, k + 1, index, edgeStart)
         ELSE <<poly1[k]>> \o spliceFrom(poly2, index)
                \o mergeWalk(poly1, poly2, k + 1,
                             (index + Len(spliceFrom(poly2, index))) % Len(poly2),
                             edgeStart)

\* mergePolygons starting the splice at the shared endpoint itself
mergePolygonsFromStart(poly1, poly2) ==
    LET sharedEdge == findSharedEdge(poly1, poly2) IN
    IF sharedEdge = Null THEN Null
    ELSE LET edgeStart == sharedEdge[1][1]
             index == findIndex(poly2, edgeStart) % Len(poly2)
         IN  Some(mergeWalk(poly1, poly2, 1, index, edgeStart))

mergePolygons(poly1, poly2) ==
    LET sharedEdge == findSharedEdge(poly1, poly2) IN
    IF sharedEdge = Null THEN Null
    ELSE LET edgeStart == sharedEdge[1][1]
             index == (findIndex(poly2, edgeStart) + 1) % Len(poly2)
         IN  Some(mergeWalk(poly1, poly2, 1, index, edgeStart))


(***************************************************************************)
(* Input validation and preparation of the triangulation input.            *)
(***************************************************************************)
NoError == << >>

\* the 1-based positions of the obstacles that validateInput rejects
BadObstacles(obs) ==
    {k \in 1..Len(obs) : Len(obs[k]) < 3 \/ ~isConvex(obs[k])}

\* validateInput without the convexity test of the obstacles
validateInputNoConvexity(bbox, obs) ==
    LET short == {k \in 1..Len(obs) : Len(obs[k]) < 3} IN
    IF Len(bbox) # 4 THEN <<"boundingBox">>
    ELSE IF short = {} THEN NoError
    ELSE <<"obstaclePoints", CHOOSE b \in short : \A c \in short : b <= c>>

\* the error validateInput throws, or NoError; forEach stops at the first
\* obstacle that throws
validateInput(bbox, obs) ==
    IF Len(bbox) # 4 THEN <<"boundingBox">>
    ELSE IF BadObstacles(obs) = {} THEN NoError
    ELSE LET k == CHOOSE b \in BadObstacles(obs) :
                      \A c \in BadObstacles(obs) : b <= c
         IN  IF Len(obs[k]) < 3 THEN <<"obstaclePoints", k>>
             ELSE <<"obstacleConvex", k>>

\* vertices.push(p.x, p.y) for every point of poly
RECURSIVE Flatten(_)
Flatten(poly) ==
    IF poly = << >> THEN << >>
    ELSE <<Head(poly).x, Head(poly).y>> \o Flatten(Tail(poly))

\* prepareObstacles with hole starts counted in buffer entries
RECURSIVE prepareObstaclesByOffset(_, _, _, _)
prepareObstaclesByOffset(obs, k, acc, vertexOffset) ==
    IF k > Len(obs) THEN acc
    ELSE prepareObstaclesByOffset(obs, k + 1,
             [vertices |-> acc.vertices \o Flatten(obs[k]),
              holes |-> Append(acc.holes, vertexOffset)],
             vertexOffset + 2 * Len(obs[k]))

\* the obstacles.forEach of prepareEarcutInput from obstacle k on
RECURSIVE prepareObstacles(_, _, _, _)
prepareObstacles(obs, k, acc, vertexOffset) ==
    IF k > Len(obs) THEN acc
    ELSE prepareObstacles(obs, k + 1,
             [vertices |-> acc.vertices \o Flatten(obs[k]),
              holes |-> Append(acc.holes, vertexOffset)],
             vertexOffset + Len(obs[k]))

prepareEarcutInput(bbox, obs) ==
    prepareObstacles(obs, 1,
        [vertices |-> Flatten(bbox), holes |-> << >>], Len(bbox))

\* { x: vertices[idx], y: vertices[idx + 1] } with idx = index * 2
Deref(verts, index) ==
    LET idx == index * 2 IN P(verts[idx + 1], verts[idx + 2])

(***************************************************************************)
(* The contract of the triangulation engine (earcut): the triangles it     *)
(* names are all wound the same way, the way of a clockwise outer ring     *)
(* with y pointing down (a positive shoelace sum); they lie in the         *)
(* bounding box and tile the bounding box minus the obstacles without      *)
(* overlap.                                                                *)
(***************************************************************************)
\* twice the signed area (shoelace)
RECURSIVE ShoelaceFrom(_, _)
ShoelaceFrom(poly, k) ==
    IF k > Len(poly) THEN 0
    ELSE LET a == poly[k]
             b == poly[(k % Len(poly)) + 1]
         IN  (a.x * b.y - b.x * a.y) + ShoelaceFrom(poly, k + 1)

Area2Signed(poly) == IF Len(poly) < 3 THEN 0 ELSE ShoelaceFrom(poly, 1)

Area2(poly) == Abs(Area2Signed(poly))

\* which side of the line a->b the point q lies on
Side(a, b, q) == (b.x - a.x) * (q.y - a.y) - (b.y - a.y) * (q.x - a.x)

\* some edge of the convex polygon p has all of q on its outer side
Separates(p, q) ==
    LET s == Sign(Area2Signed(p)) IN
    \E k \in 1..Len(p) :
        LET a == p[k]
            b == p[(k % Len(p)) + 1]
        IN  /\ a # b
            /\ \A l \in 1..Len(q) : s * Side(a, b, q[l]) <= 0

\* two convex polygons share no interior point
InteriorsDisjoint(p, q) ==
    \/ Area2(p) = 0
    \/ Area2(q) = 0
    \/ Separates(p, q)
    \/ Separates(q, p)

\* every vertex of q lies in the convex polygon p
Inside(p, q) ==
    LET s == Sign(Area2Signed(p)) IN
    \A k \in 1..Len(p) : \A l \in 1..Len(q) :
        s * Side(p[k], p[(k % Len(p)) + 1], q[l]) >= 0

RECURSIVE SumArea2(_)
SumArea2(polys) ==
    IF polys = << >> THEN 0 ELSE Area2(Head(polys)) + SumArea2(Tail(polys))

\* the region is a convex box with the obstacles inside it, not overlapping
RegionWellFormed(bbox, obs) ==
    /\ isConvex(bbox)
    /\ Area2(bbox) > 0
    /\ \A k \in 1..Len(obs) : Inside(bbox, obs[k])
    /\ \A k, l \in 1..Len(obs) : k < l => InteriorsDisjoint(obs[k], obs[l])

WalkableArea2(bbox, obs) == Area2(bbox) - SumArea2(obs)

\* the engine may name tri next, after the triangles tris (the region is
\* well formed)
EngineMayEmit(bbox, obs, tris, tri) ==
    /\ Area2Signed(tri) > 0
    /\ SumArea2(tris) + Area2(tri) <= WalkableArea2(bbox, obs)
    /\ Inside(bbox, tri)
    /\ \A k \in 1..Len(obs) : InteriorsDisjoint(obs[k], tri)
    /\ \A k \in 1..Len(tris) : InteriorsDisjoint(tris[k], tri)

\* the engine has named a complete triangulation
EngineComplete(bbox, obs, tris) ==
    /\ RegionWellFormed(bbox, obs)
    /\ SumArea2(tris) = WalkableArea2(bbox, obs)

(***************************************************************************)
(* Inputs.                                                                 *)
(***************************************************************************)
Rot(s, k) == [j \in 1..Len(s) |-> s[((j - 1 + k) % Len(s)) + 1]]

\* [top left, top right, bottom right, bottom left], y pointing down
Square == <<P(0, 0), P(2, 0), P(2, 2), P(0, 2)>>
Wide == <<P(0, 0), P(2, 0), P(2, 1), P(0, 1)>>

BoundingBoxes ==
    {Square, Rot(Square, 1), Wide,
     SubSeq(Square, 1, 3), Square \o <<P(1, 1)>>}

ObstaclePool ==
    {<<P(0, 0), P(2, 0), P(1, 1)>>,          \* top quarter of Square
     <<P(2, 0), P(2, 2), P(1, 1)>>,          \* right quarter of Square
     <<P(1, 0), P(2, 0), P(2, 1)>>,          \* top right corner cut
     <<P(0, 0), P(0, 2), P(1, 2), P(1, 0)>>, \* left half, wound the other way
     <<P(0, 0), P(1, 1)>>,                   \* two points
     <<P(0, 0), P(1, 1), P(2, 0), P(1, 2)>>} \* arrowhead

SeqsUpTo(S, n) == UNION {[1..k -> S] : k \in 0..n}

(***************************************************************************)
(* The pipeline of decomposeWalkableArea.                                  *)
(***************************************************************************)
NoFn == << >>

Init ==
    /\ pc = "validate"
    /\ boundingBox \in BoundingBoxes
    /\ obstacles \in SeqsUpTo(ObstaclePool, MaxObst)
    /\ error = NoError
    /\ vertices = << >>
    /\ holes = << >>
    /\ triangles = << >>
    /\ adjacencyMap = << >>
    /\ visited = {}
    /\ result = << >>
    /\ outerI = 0
    /\ nbrPos = 0
    /\ mergedPoly = << >>
    /\ consumedBy = << >>
    /\ attempted = {}
    /\ rejectedBy = << >>
    /\ fnIn = NoFn
    /\ fnOut = NoFn

\* validateInput(boundingBox, obstacles): throws, or falls through
Validate ==
    /\ pc = "validate"
    /\ error' = validateInput(boundingBox, obstacles)
    /\ pc' = IF error' = NoError THEN "prepare" ELSE "failed"
    /\ UNCHANGED <<boundingBox, obstacles, vertices, holes, triangles,
                   adjacencyMap, visited, result, outerI, nbrPos, mergedPoly,
                   consumedBy, attempted, rejectedBy, fnIn, fnOut>>

Prepare ==
    /\ pc = "prepare"
    /\ vertices' = prepareEarcutInput(boundingBox, obstacles).vertices
    /\ holes' = prepareEarcutInput(boundingBox, obstacles).holes
    /\ pc' = "triangulate"
    /\ UNCHANGED <<boundingBox, obstacles, error, triangles,
                   adjacencyMap, visited, result, outerI, nbrPos, mergedPoly,
                   consumedBy, attempted, rejectedBy, fnIn, fnOut>>

\* the points that vertex indices into the buffer can name
EnginePoints(verts) ==
    {Deref(verts, index) : index \in 0..((Len(verts) \div 2) - 1)}

\* the triangles that index triples into the vertex buffer can name
EngineTriangles(verts) ==
    {tri \in [1..3 -> EnginePoints(verts)] :
        tri[1] # tri[2] /\ tri[2] # tri[3] /\ tri[1] # tri[3]}

\* the triangles the engine may name next
EngineChoices(bbox, obs, tris, verts) ==
    {tri \in EngineTriangles(verts) : EngineMayEmit(bbox, obs, tris, tri)}

\* one round of the conversion loop of triangulateWithEarcut: the engine
\* has named three vertex indices and the loop dereferences them
TriangulateStep ==
    /\ pc = "triangulate"
    /\ Len(triangles) < MaxTri
    /\ RegionWellFormed(boundingBox, obstacles)
    /\ \E tri \in EngineChoices(boundingBox, obstacles, triangles, vertices) :
          triangles' = Append(triangles, tri)
    /\ UNCHANGED <<pc, boundingBox, obstacles, error, vertices, holes,
                   adjacencyMap, visited, result, outerI, nbrPos, mergedPoly,
                   consumedBy, attempted, rejectedBy, fnIn, fnOut>>

\* triangulateWithEarcut returns
TriangulateDone ==
    /\ pc = "triangulate"
    /\ EngineComplete(boundingBox, obstacles, triangles)
    /\ pc' = "adjacency"
    /\ UNCHANGED <<boundingBox, obstacles, error, vertices, holes, triangles,
                   adjacencyMap, visited, result, outerI, nbrPos, mergedPoly,
                   consumedBy, attempted, rejectedBy, fnIn, fnOut>>


(***************************************************************************)
(* mergeTrianglesToConvexPolygons.  consumedBy, attempted and rejectedBy   *)
(* record the history of the merge loop (the seeds whose polygon took a    *)
(* triangle, the neighbours the current pass has handed to mergePolygons,  *)
(* the seeds whose pass left a triangle out); the code keeps none of them. *)
(***************************************************************************)
\* the inner loop over j of the adjacency construction, for triangle i
RECURSIVE adjacencyList(_, _, _)
adjacencyList(tris, i, j) ==
    IF j >= Len(tris) THEN << >>
    ELSE IF i = j \/ ~shareEdge(tris[i + 1], tris[j + 1])
         THEN adjacencyList(tris, i, j + 1)
         ELSE <<j>> \o adjacencyList(tris, i, j + 1)

buildAdjacencyMap(tris) ==
    [i \in 0..(Len(tris) - 1) |-> adjacencyList(tris, i, 0)]

BuildAdjacency ==
    /\ pc = "adjacency"
    /\ adjacencyMap' = buildAdjacencyMap(triangles)
    /\ visited' = {}
    /\ result' = << >>
    /\ outerI' = 0
    /\ consumedBy' = [k \in 0..(Len(triangles) - 1) |-> << >>]
    /\ rejectedBy' = [k \in 0..(Len(triangles) - 1) |-> {}]
    /\ pc' = "outer"
    /\ UNCHANGED <<boundingBox, obstacles, error, vertices, holes, triangles,
                   nbrPos, mergedPoly, attempted, fnIn, fnOut>>

\* if (visited.has(i)) continue
OuterSkip ==
    /\ pc = "outer"
    /\ outerI < Len(triangles)
    /\ outerI \in visited
    /\ outerI' = outerI + 1
    /\ UNCHANGED <<pc, boundingBox, obstacles, error, vertices, holes,
                   triangles, adjacencyMap, visited, result, nbrPos,
                   mergedPoly, consumedBy, attempted, rejectedBy, fnIn, fnOut>>

\* OuterSeed without visited.add(i)
OuterSeedNoMark ==
    /\ pc = "outer"
    /\ outerI < Len(triangles)
    /\ outerI \notin visited
    /\ mergedPoly' = triangles[outerI + 1]
    /\ nbrPos' = 0
    /\ consumedBy' = [consumedBy EXCEPT ![outerI] = Append(@, outerI)]
    /\ attempted' = {}
    /\ pc' = "inner"
    /\ UNCHANGED <<boundingBox, obstacles, error, vertices, holes, triangles,
                   adjacencyMap, visited, result, outerI, rejectedBy,
                   fnIn, fnOut>>

\* let mergedPoly = [...triangles[i]]; visited.add(i)
OuterSeed ==
    /\ pc = "outer"
    /\ outerI < Len(triangles)
    /\ outerI \notin visited
    /\ mergedPoly' = triangles[outerI + 1]
    /\ visited' = visited \cup {outerI}
    /\ nbrPos' = 0
    /\ consumedBy' = [consumedBy EXCEPT ![outerI] = Append(@, outerI)]
    /\ attempted' = {}
    /\ pc' = "inner"
    /\ UNCHANGED <<boundingBox, obstacles, error, vertices, holes, triangles,
                   adjacencyMap, result, outerI, rejectedBy, fnIn, fnOut>>

\* the neighbour the inner loop is at
neighborIdx == adjacencyMap[outerI][nbrPos + 1]

\* AcceptFusion without the convexity test of the candidate
AcceptFusionUnchecked(candidate) == candidate # Null

\* candidate && isConvex(candidate)
AcceptFusion(candidate) == candidate # Null /\ isConvex(candidate[1])

\* if (visited.has(neighborIdx)) continue
InnerSkip ==
    /\ pc = "inner"
    /\ nbrPos < Len(adjacencyMap[outerI])
    /\ neighborIdx \in visited
    /\ nbrPos' = nbrPos + 1
    /\ UNCHANGED <<pc, boundingBox, obstacles, error, vertices, holes,
                   triangles, adjacencyMap, visited, result, outerI,
                   mergedPoly, consumedBy, attempted, rejectedBy, fnIn, fnOut>>

\* InnerAccept without visited.add(neighborIdx)
InnerAcceptNoMark ==
    /\ pc = "inner"
    /\ nbrPos < Len(adjacencyMap[outerI])
    /\ neighborIdx \notin visited
    /\ LET candidate == mergePolygons(mergedPoly, triangles[neighborIdx + 1])
       IN  /\ AcceptFusion(candidate)
           /\ mergedPoly' = candidate[1]
    /\ consumedBy' = [consumedBy EXCEPT ![neighborIdx] = Append(@, outerI)]
    /\ attempted' = attempted \cup {neighborIdx}
    /\ nbrPos' = nbrPos + 1
    /\ UNCHANGED <<pc, boundingBox, obstacles, error, vertices, holes,
                   triangles, adjacencyMap, visited, result, outerI,
                   rejectedBy, fnIn, fnOut>>

\* the fusion is accepted: mergedPoly = candidate; visited.add(neighborIdx)
InnerAccept ==
    /\ pc = "inner"
    /\ nbrPos < Len(adjacencyMap[outerI])
    /\ neighborIdx \notin visited
    /\ LET candidate == mergePolygons(mergedPoly, triangles[neighborIdx + 1])
       IN  /\ AcceptFusion(candidate)
           /\ mergedPoly' = candidate[1]
    /\ visited' = visited \cup {neighborIdx}
    /\ consumedBy' = [consumedBy EXCEPT ![neighborIdx] = Append(@, outerI)]
    /\ attempted' = attempted \cup {neighborIdx}
    /\ nbrPos' = nbrPos + 1
    /\ UNCHANGED <<pc, boundingBox, obstacles, error, vertices, holes,
                   triangles, adjacencyMap, result, outerI, rejectedBy,
                   fnIn, fnOut>>

\* no candidate, or a candidate that is not convex: the neighbour is left
InnerReject ==
    /\ pc = "inner"
    /\ nbrPos < Len(adjacencyMap[outerI])
    /\ neighborIdx \notin visited
    /\ ~AcceptFusion(mergePolygons(mergedPoly, triangles[neighborIdx + 1]))
    /\ attempted' = attempted \cup {neighborIdx}
    /\ rejectedBy' = [rejectedBy EXCEPT ![neighborIdx] = @ \cup {outerI}]
    /\ nbrPos' = nbrPos + 1
    /\ UNCHANGED <<pc, boundingBox, obstacles, error, vertices, holes,
                   triangles, adjacencyMap, visited, result, outerI,
                   mergedPoly, consumedBy, fnIn, fnOut>>

\* result.push(mergedPoly), and the outer loop's i++
OuterPush ==
    /\ pc = "inner"
    /\ nbrPos = Len(adjacencyMap[outerI])
    /\ result' = Append(result, mergedPoly)
    /\ outerI' = outerI + 1
    /\ pc' = "outer"
    /\ UNCHANGED <<boundingBox, obstacles, error, vertices, holes, triangles,
                   adjacencyMap, visited, nbrPos, mergedPoly, consumedBy,
                   attempted, rejectedBy, fnIn, fnOut>>

\* return result
Return ==
    /\ pc = "outer"
    /\ outerI = Len(triangles)
    /\ pc' = "done"
    /\ UNCHANGED <<boundingBox, obstacles, error, vertices, holes, triangles,
                   adjacencyMap, visited, result, outerI, nbrPos, mergedPoly,
                   consumedBy, attempted, rejectedBy, fnIn, fnOut>>

MergeNext ==
    \/ BuildAdjacency
    \/ OuterSkip
    \/ OuterSeed
    \/ InnerSkip
    \/ InnerAccept
    \/ InnerReject
    \/ OuterPush
    \/ Return

Next ==
    \/ Validate
    \/ Prepare
    \/ TriangulateStep
    \/ TriangulateDone
    \/ MergeNext

Spec == Init /\ [][Next]_vars


(***************************************************************************)
(* mergeTrianglesToConvexPolygons on any list of triangles.                *)
(***************************************************************************)
Distinct(s) == \A k, l \in 1..Len(s) : k # l => s[k] # s[l]

TrianglePool == {tri \in [1..3 -> Range(Square)] : Distinct(tri)}

InitMerge ==
    /\ pc = "adjacency"
    /\ triangles \in SeqsUpTo(TrianglePool, MaxAnyTri)
    /\ boundingBox = << >>
    /\ obstacles = << >>
    /\ error = NoError
    /\ vertices = << >>
    /\ holes = << >>
    /\ adjacencyMap = << >>
    /\ visited = {}
    /\ result = << >>
    /\ outerI = 0
    /\ nbrPos = 0
    /\ mergedPoly = << >>
    /\ consumedBy = << >>
    /\ attempted = {}
    /\ rejectedBy = << >>
    /\ fnIn = NoFn
    /\ fnOut = NoFn

SpecMerge == InitMerge /\ [][MergeNext]_vars

(***************************************************************************)
(* isConvex and mergePolygons on their own.                                *)
(***************************************************************************)
GridPoints == {P(px, py) : px \in 0..2, py \in 0..2}

InitFn(args) ==
    /\ pc = "call"
    /\ fnIn \in args
    /\ fnOut = NoFn
    /\ boundingBox = << >>
    /\ obstacles = << >>
    /\ error = NoError
    /\ vertices = << >>
    /\ holes = << >>
    /\ triangles = << >>
    /\ adjacencyMap = << >>
    /\ visited = {}
    /\ result = << >>
    /\ outerI = 0
    /\ nbrPos = 0
    /\ mergedPoly = << >>
    /\ consumedBy = << >>
    /\ attempted = {}
    /\ rejectedBy = << >>

InitIsConvex ==
    InitFn({<<poly>> : poly \in SeqsUpTo(GridPoints, MaxConvexLen)})

CallIsConvex ==
    /\ pc = "call"
    /\ Len(fnIn) = 1
    /\ fnOut' = <<isConvex(fnIn[1])>>
    /\ pc' = "returned"
    /\ UNCHANGED <<pipelineVarsButPc, fnIn>>

SpecIsConvex == InitIsConvex /\ [][CallIsConvex]_vars

PolyPoints == Range(Square) \cup {P(1, 1)}

PolyPool ==
    {poly \in UNION {[1..n -> PolyPoints] : n \in 3..MaxPolyLen} :
        Distinct(poly)}

InitMergePolygons == InitFn(PolyPool \X PolyPool)

CallMergePolygons ==
    /\ pc = "call"
    /\ Len(fnIn) = 2
    /\ fnOut' = <<mergePolygons(fnIn[1], fnIn[2])>>
    /\ pc' = "returned"
    /\ UNCHANGED <<pipelineVarsButPc, fnIn>>

SpecMergePolygons == InitMergePolygons /\ [][CallMergePolygons]_vars


(***************************************************************************)
(* Properties.                                                             *)
(***************************************************************************)
NumTri == Len(triangles)

TriIdx == 0..(NumTri - 1)

C2_MergedPolyConvex ==
    /\ pc = "inner" => isConvex(mergedPoly)
    /\ \A k \in 1..Len(result) : isConvex(result[k])

\* a call returned a fused polygon after turning a fusion down
C2_Witness ==
    /\ pc = "done"
    /\ \E k \in 1..Len(result) : Len(result[k]) >= 4
    /\ \E t \in TriIdx : rejectedBy[t] # {}

InvalidInput(bbox, obs) ==
    \/ Len(bbox) # 4
    \/ \E k \in 1..Len(obs) : Len(obs[k]) < 3
    \/ \E k \in 1..Len(obs) : ~isConvex(obs[k])

\* C3: the call fails with a validation error exactly when the bounding box
\* has not exactly 4 points or an obstacle has fewer than 3 points or is not
\* convex; validation runs first, so a failed call has prepared nothing,
\* triangulated nothing and returned nothing.
C3_ValidationGate ==
    /\ pc # "validate" => (pc = "failed" <=> InvalidInput(boundingBox, obstacles))
    /\ pc = "failed" <=> error # NoError
    /\ pc \in {"validate", "failed"} =>
          /\ vertices = << >>
          /\ holes = << >>
          /\ triangles = << >>
          /\ result = << >>

\* the call failed on its second obstacle, a concave one, after a valid first
C3_Witness ==
    /\ pc = "failed"
    /\ error = <<"obstacleConvex", 2>>
    /\ Len(boundingBox) = 4

Dot(a, b, c) == (b.x - a.x) * (c.x - b.x) + (b.y - a.y) * (c.y - b.y)

IsRectangle(bbox) ==
    /\ Len(bbox) = 4
    /\ Area2(bbox) > 0
    /\ \A k \in 1..4 : Dot(bbox[k], bbox[(k % 4) + 1], bbox[((k + 1) % 4) + 1]) = 0

\* C4: for a rectangular bounding box and no obstacles, whichever diagonal
\* the engine picks, the call returns exactly one polygon, and it is a
\* rotation of the input rectangle.
C4_RectangleComesBack ==
    (pc = "done" /\ IsRectangle(boundingBox) /\ obstacles = << >>) =>
        /\ Len(result) = 1
        /\ \E k \in 0..3 : result[1] = Rot(boundingBox, k)

\* the call returned for the wide rectangle cut along the diagonal that does
\* not pass through the first corner
C4_Witness ==
    /\ pc = "done"
    /\ boundingBox = Wide
    /\ obstacles = << >>
    /\ \A k \in 1..NumTri : boundingBox[1] \notin Range(triangles[k])
                               \/ boundingBox[3] \notin Range(triangles[k])


\* some edge of tri1 and some edge of tri2 have endpoints that coincide
\* under the tolerance, in either order
EdgeInCommon(tri1, tri2) ==
    \E k, l \in 1..3 :
        LET a == tri1[k]
            b == tri1[(k % 3) + 1]
            c == tri2[l]
            d == tri2[(l % 3) + 1]
        IN  \/ pointsEqual(a, c) /\ pointsEqual(b, d)
            \/ pointsEqual(a, d) /\ pointsEqual(b, c)

\* C5: once built, the adjacency map lists j for i exactly when i # j and
\* triangles i and j have an edge in common, and whenever it lists j for i
\* it lists i for j.
C5_AdjacencySymmetric ==
    pc \in {"outer", "inner", "done"} =>
        \A i, j \in TriIdx :
            /\ j \in Range(adjacencyMap[i]) <=>
                  (i # j /\ EdgeInCommon(triangles[i + 1], triangles[j + 1]))
            /\ j \in Range(adjacencyMap[i]) => i \in Range(adjacencyMap[j])

\* the map of two triangles that have an edge in common was built
C5_Witness ==
    /\ pc = "outer"
    /\ NumTri = 2
    /\ adjacencyMap[0] = <<1>>
    /\ adjacencyMap[1] = <<0>>

\* the bounding box points followed by every obstacle's points
RECURSIVE AllPoints(_, _)
AllPoints(bbox, obs) ==
    IF obs = << >> THEN bbox
    ELSE AllPoints(bbox \o Head(obs), Tail(obs))

RECURSIVE SumLen(_, _)
SumLen(obs, k) == IF k = 0 THEN 0 ELSE Len(obs[k]) + SumLen(obs, k - 1)

\* C8: the coordinate buffer holds the bounding box points, then each
\* obstacle's points in the order given, as x, y pairs; hole entry k is the
\* bounding box point count plus the point counts of the obstacles before
\* obstacle k; the hole list is strictly increasing, and empty when there
\* are no obstacles.
C8_BufferAndHoles ==
    pc \notin {"validate", "failed", "prepare"} =>
        LET pts == AllPoints(boundingBox, obstacles) IN
        /\ Len(vertices) = 2 * Len(pts)
        /\ \A n \in 1..Len(pts) :
              /\ vertices[2 * n - 1] = pts[n].x
              /\ vertices[2 * n] = pts[n].y
        /\ Len(holes) = Len(obstacles)
        /\ \A k \in 1..Len(holes) :
              holes[k] = Len(boundingBox) + SumLen(obstacles, k - 1)
        /\ \A k, l \in 1..Len(holes) : k < l => holes[k] < holes[l]
        /\ obstacles = << >> => holes = << >>

\* the input of a call with two obstacles was prepared
C8_Witness ==
    /\ pc = "triangulate"
    /\ Len(obstacles) = 2
    /\ Len(holes) = 2

\* how far the merge has come: the passes done, then the place in the pass
LoopRank ==
    IF pc = "adjacency" THEN 0
    ELSE IF pc = "done" THEN NumTri * (NumTri + 2) + 2
    ELSE 1 + outerI * (NumTri + 2) + (IF pc = "inner" THEN nbrPos + 1 ELSE 0)

\* the loop counters are in the range where one of the loop's branches runs
LoopCanStep ==
    /\ pc = "outer" => outerI \in 0..NumTri
    /\ pc = "inner" => /\ outerI \in TriIdx
                       /\ nbrPos \in 0..Len(adjacencyMap[outerI])

LoopStep ==
    /\ visited \subseteq visited'
    /\ (pc = "outer" /\ pc' = "inner") =>
          (outerI \notin visited /\ outerI \in visited')
    /\ pc' = "done" => visited' = 0..(Len(triangles') - 1)
    /\ LoopRank' > LoopRank
    /\ LoopRank' <= NumTri * (NumTri + 2) + 2

\* C9: the merge loop ends: it can always take its next step, and every
\* step moves it forward in a bounded order; a pass that is not skipped
\* marks a triangle that was not visited before, no triangle is ever
\* unmarked, and when the loop has ended every triangle index is visited.
C9_LoopEndsAllVisited == [](LoopCanStep) /\ [][LoopStep]_vars

\* the loop ended after two passes that were not skipped
C9_Witness ==
    /\ pc = "done"
    /\ NumTri = 2
    /\ Len(result) = 2
    /\ visited = {0, 1}

\* the triangles that went into the polygon of seed s
TakenBy(s) == {t \in TriIdx : consumedBy[t] # << >> /\ consumedBy[t][1] = s}

Seeds == {t \in TriIdx : consumedBy[t] # << >> /\ consumedBy[t][1] = t}

CrossAt(poly, i) ==
    LET n == Len(poly) IN
    Cross(poly[i + 1], poly[((i + 1) % n) + 1], poly[((i + 2) % n) + 1])

\* C7: isConvex answers false exactly when the polygon has fewer than 3
\* points or two of its cross products are nonzero with opposite signs;
\* zero cross products never change the answer.
C7_IsConvexVerdict ==
    (pc = "returned" /\ Len(fnIn) = 1) =>
        LET poly == fnIn[1]
            n == Len(poly)
        IN  fnOut[1] = ~(\/ n < 3
                         \/ \E i, j \in 0..(n - 1) :
                               CrossAt(poly, i) * CrossAt(poly, j) < 0)

\* isConvex answered true for four points whose cross products are all zero
C7_Witness ==
    /\ pc = "returned"
    /\ Len(fnIn) = 1
    /\ Len(fnIn[1]) = 4
    /\ \A i \in 0..3 : CrossAt(fnIn[1], i) = 0
    /\ fnOut = <<TRUE>>

\* the pairs <<k, l>> with edge k of poly1 matching edge l of poly2
SharedEdges(poly1, poly2) ==
    {kl \in (1..Len(poly1)) \X (1..Len(poly2)) :
        EdgesMatch(getEdges(poly1)[kl[1]], getEdges(poly2)[kl[2]])}

\* the vertices of poly2 other than the endpoints of its edge l, in poly2's
\* order from just past that edge
OffEdge(poly2, l) ==
    [t \in 1..(Len(poly2) - 2) |-> poly2[((l + t) % Len(poly2)) + 1]]

\* C6: for two polygons that share exactly one edge, mergePolygons returns
\* poly1's vertices in order with the vertices of poly2 other than the two
\* shared endpoints spliced in, in poly2's order, right after the shared
\* edge's first endpoint: |poly1| + |poly2| - 2 vertices, none repeated;
\* it returns no result exactly when the polygons share no edge.
C6_MergeSplicesSharedEdge ==
    (pc = "returned" /\ Len(fnIn) = 2) =>
        LET poly1 == fnIn[1]
            poly2 == fnIn[2]
            shared == SharedEdges(poly1, poly2)
        IN  /\ fnOut[1] = Null <=> shared = {}
            /\ Cardinality(shared) = 1 =>
                  LET kl == CHOOSE e \in shared : TRUE
                      expected == SubSeq(poly1, 1, kl[1])
                                    \o OffEdge(poly2, kl[2])
                                    \o SubSeq(poly1, kl[1] + 1, Len(poly1))
                  IN  /\ fnOut[1] = Some(expected)
                      /\ Len(fnOut[1][1]) = Len(poly1) + Len(poly2) - 2
                      /\ Distinct(fnOut[1][1])

=============================================================================
